---------------------------- MODULE Spec2Model ----------------------------
(***************************************************************************)
(* The dBase writer of src/src/writing.rs (Writer::write and               *)
(* Writer::write_records) and the typed extraction macro of src/src/lib.rs *)
(* (extract_field_value!), as state machines.                              *)
(*                                                                         *)
(* The sink `dest` is any std::io::Write: each write call either stores    *)
(* its bytes or fails.  FieldValue, RecordFieldInfo, Header and the Reader *)
(* live in modules of the crate that are not part of src/ (record, header, *)
(* reading); they are modelled from the specification.                     *)
(***************************************************************************)
EXTENDS Integers, Sequences, FiniteSets, TLC

(***************************************************************************)
(* Bounds of the model.                                                    *)
(***************************************************************************)
MaxRecords == 2

MaxReads == 4

(***************************************************************************)
(* Program constants.                                                      *)
(***************************************************************************)
U8_MAX == 255

FILE_TERMINATOR == 26

TERMINATOR_VALUE == 13

SPACE == 32

Header_SIZE == 32

RecordFieldInfo_SIZE == 32

(***************************************************************************)
(* FieldValue: a tagged value and the bytes its encoding writes.           *)
(* A byte string is kept as its runs: "aab" is two bytes 97, one byte 98.   *)
(***************************************************************************)
Run(byte, count) == [byte |-> byte, count |-> count]

Repeat(n, b) == IF n = 0 THEN << >> ELSE << Run(b, n) >>

RECURSIVE ByteLen(_)
ByteLen(bytes) ==
    IF bytes = << >> THEN 0 ELSE Head(bytes).count + ByteLen(Tail(bytes))

Character(bytes) == [type |-> "Character", bytes |-> bytes]

Numeric(bytes) == [type |-> "Numeric", bytes |-> bytes]

Date(bytes) == [type |-> "Date", bytes |-> bytes]

\* "a", "ab", 1 and a Character value of 256 bytes
Values ==
    { Character(<< Run(97, 1) >>), Character(<< Run(97, 1), Run(98, 1) >>),
      Numeric(<< Run(49, 1) >>), Character(Repeat(U8_MAX + 1, 97)) }

field_type(value) == value.type

size_in_bytes(value) == ByteLen(value.bytes)

\* the bytes FieldValue::write_to hands to the sink; it returns their count
encoded(value) == value.bytes

(***************************************************************************)
(* The inputs.  A generic Record is a HashMap from field name to value; a  *)
(* typed record is a caller's DBaseRecord: the lengths it reports through  *)
(* fields_length and the values it hands over through fields_values.       *)
(***************************************************************************)
FieldNameSets == { {"a"}, {"a", "b"} }

Records == UNION { [names -> Values] : names \in FieldNameSets }

\* R::fields_info() of the typed record
Schema == << [name |-> "name", field_type |-> "Character"],
             [name |-> "price", field_type |-> "Numeric"] >>

ReportedLengths == {1, 2}

FieldTypes == {"Character", "Numeric"}

\* The variants fields_values of one record type R puts in the slots: a
\* property of the type, the same for all the records of a call.
Produced == [1..Len(Schema) -> FieldTypes]

TypedRecords(produced) ==
    [ lens : [1..Len(Schema) -> ReportedLengths],
      vals : { v \in [1..Len(Schema) -> Values] :
                 \A i \in 1..Len(Schema) : v[i].type = produced[i] } ]

SeqsUpTo(S, n) == UNION { [1..k -> S] : k \in 0..n }

\* the orders in which a HashMap may iterate over the keys `names`
Orders(names) ==
    { o \in [1..Cardinality(names) -> names] :
        \A i, j \in DOMAIN o : i # j => o[i] # o[j] }

VARIABLES
    mode,           \* "write" | "write_records" | "extract"
    records,        \* the collection handed to the call
    pc,             \* position in the call
    result,         \* "running" | "Ok" | an error | a panic
    fields_name,    \* Writer::write: keys of records[0], in iteration order
    fields_info,    \* the descriptors (RecordFieldInfo)
    fields_sizes,   \* Writer::write_records: the buffer fields_length fills
    ri,             \* index of the record being handled
    fi,             \* index of the field being handled
    hdr,            \* the Header built by Header::new, or NoHeader
    bytes_written,  \* count returned by the last FieldValue::write_to
    dest,           \* what the sink stored, one chunk per successful write
    issued,         \* the write calls made on the sink, in order (history)
    failed,         \* some write call on the sink failed (history)
    widths,         \* bytes stored in each finished field slot (history)
    reads,          \* extraction: what read_next_value returns, call by call
    extracted       \* extraction: the values bound so far

vars == << mode, records, pc, result, fields_name, fields_info, fields_sizes,
           ri, fi, hdr, bytes_written, dest, issued, failed, widths,
           reads, extracted >>

NoHeader == [kind |-> "none"]

writerVars == << records, fields_name, fields_info, fields_sizes, ri, fi,
                 hdr, bytes_written, dest, issued, failed, widths >>

extractVars == << reads, extracted >>

(***************************************************************************)
(* The sink.                                                               *)
(***************************************************************************)
Bytes(data) == [kind |-> "bytes", data |-> data]

\* names one write call: what is written, for which record and field
Tag(what, record, field) == << what, record, field >>

\* one write call on the sink: `chunk` is stored when the call succeeds
SinkWrite(ok, tag, chunk) ==
    /\ issued' = Append(issued, [tag |-> tag, chunk |-> chunk])
    /\ failed' = (failed \/ ~ok)
    /\ dest' = IF ok THEN Append(dest, chunk) ELSE dest

(***************************************************************************)
(* RecordFieldInfo and Header.                                             *)
(***************************************************************************)
RecordFieldInfo_with_length(name, type, length) ==
    [kind |-> "descriptor", name |-> name, field_type |-> type,
     field_length |-> length]

RecordFieldInfo_new(name, type) == RecordFieldInfo_with_length(name, type, 0)

Header_new(num_records, offset, size_of_record) ==
    [kind |-> "header", num_records |-> num_records,
     offset_to_first_record |-> offset, size_of_record |-> size_of_record]

RECURSIVE SumLengths(_)
SumLengths(infos) ==
    IF infos = << >> THEN 0
    ELSE (SumLengths(SubSeq(infos, 1, Len(infos) - 1))
            + infos[Len(infos)].field_length) % 65536

\* writing.rs:84 and :137
offset_to_first_record(infos) ==
    (Header_SIZE + Len(infos) * RecordFieldInfo_SIZE + 1) % 65536

\* writing.rs:85 and :139-141
size_of_record(infos) == SumLengths(infos)

NegotiatedLength_last(current, needed) == needed

\* std::cmp::max(record_info.field_length, field_length as u8)
NegotiatedLength(current, needed) ==
    IF needed > current THEN needed ELSE current

Miscalculated_never(written, length) == FALSE

\* bytes_written > record_info.field_length
Miscalculated(written, length) == written > length

\* record_info.field_length - bytes_written, in u8
bytes_to_pad(length, written) == (length - written) % (U8_MAX + 1)

(***************************************************************************)
(* Where the emission loops go after field fi of record ri.                *)
(***************************************************************************)
AfterField ==
    IF fi < Len(fields_info)
      THEN pc' = "value" /\ fi' = fi + 1 /\ ri' = ri
      ELSE IF ri < Len(records)
        THEN pc' = "flag" /\ fi' = 1 /\ ri' = ri + 1
        ELSE pc' = "eof" /\ fi' = fi /\ ri' = ri

Fail(error) == result' = error /\ pc' = "done"

\* the value of field fi of record ri
CurrentValue ==
    IF mode = "write" THEN records[ri][fields_name[fi]]
                      ELSE records[ri].vals[fi]

(***************************************************************************)
(* Writer::write                                                           *)
(***************************************************************************)
WriteEmpty_terminated ==
    /\ mode = "write" /\ pc = "start" /\ records = << >>
    /\ SinkWrite(TRUE, Tag("eof", 0, 0), Bytes(Repeat(1, FILE_TERMINATOR)))
    /\ result' = "Ok" /\ pc' = "done"
    /\ UNCHANGED << mode, records, fields_name, fields_info, fields_sizes,
                    ri, fi, hdr, bytes_written, widths, extractVars >>

\* writing.rs:55-57
WriteEmpty ==
    /\ mode = "write" /\ pc = "start" /\ records = << >>
    /\ result' = "Ok" /\ pc' = "done"
    /\ UNCHANGED << mode, writerVars, extractVars >>

\* writing.rs:58: the keys of records[0], in the map's iteration order
WriteFieldsName ==
    /\ mode = "write" /\ pc = "start" /\ records # << >>
    /\ \E order \in Orders(DOMAIN records[1]) : fields_name' = order
    /\ pc' = "first" /\ fi' = 1
    /\ UNCHANGED << mode, records, result, fields_info, fields_sizes, ri,
                    hdr, bytes_written, dest, issued, failed, widths,
                    extractVars >>

\* writing.rs:61-70: one iteration over records[0]
WriteFirstRecord ==
    /\ mode = "write" /\ pc = "first"
    /\ LET field_name == fields_name[fi]
           field_value == records[1][field_name]
           field_length == size_in_bytes(field_value)
       IN IF field_length > U8_MAX
            THEN /\ Fail("FieldLengthTooLong")
                 /\ UNCHANGED << fields_info, fi, ri >>
            ELSE /\ fields_info' = Append(fields_info,
                        RecordFieldInfo_with_length(field_name,
                            field_type(field_value), field_length % 256))
                 /\ result' = result
                 /\ IF fi < Len(fields_name)
                      THEN pc' = "first" /\ fi' = fi + 1 /\ ri' = ri
                      ELSE IF Len(records) > 1
                        THEN pc' = "scan" /\ fi' = 1 /\ ri' = 2
                        ELSE pc' = "header" /\ fi' = fi /\ ri' = ri
    /\ UNCHANGED << mode, records, fields_name, fields_sizes, hdr,
                    bytes_written, dest, issued, failed, widths, extractVars >>

\* writing.rs:73-82: one iteration of the inner loop over records[1..]
WriteScanRecord ==
    /\ mode = "write" /\ pc = "scan"
    /\ LET field_name == fields_name[fi]
       IN IF field_name \notin DOMAIN records[ri]
            THEN /\ Fail("panic: unwrap on None")
                 /\ UNCHANGED << fields_info, fi, ri >>
            ELSE LET field_length == size_in_bytes(records[ri][field_name])
                 IN IF field_length > U8_MAX
                      THEN /\ Fail("FieldLengthTooLong")
                           /\ UNCHANGED << fields_info, fi, ri >>
                      ELSE /\ fields_info' =
                                [fields_info EXCEPT ![fi].field_length =
                                    NegotiatedLength(@, field_length % 256)]
                           /\ result' = result
                           /\ IF fi < Len(fields_name)
                                THEN pc' = "scan" /\ fi' = fi + 1 /\ ri' = ri
                                ELSE IF ri < Len(records)
                                  THEN pc' = "scan" /\ fi' = 1 /\ ri' = ri + 1
                                  ELSE pc' = "header" /\ fi' = fi /\ ri' = ri
    /\ UNCHANGED << mode, records, fields_name, fields_sizes, hdr,
                    bytes_written, dest, issued, failed, widths, extractVars >>

\* writing.rs:84-88
WriteHeader ==
    /\ mode = "write" /\ pc = "header"
    /\ hdr' = Header_new(Len(records), offset_to_first_record(fields_info),
                         size_of_record(fields_info))
    /\ \E ok \in BOOLEAN :
        /\ SinkWrite(ok, Tag("header", 0, 0), hdr')
        /\ IF ok THEN pc' = "descriptor" /\ fi' = 1 /\ result' = result
                 ELSE Fail("IoError") /\ fi' = fi
    /\ UNCHANGED << mode, records, fields_name, fields_info, fields_sizes,
                    ri, bytes_written, widths, extractVars >>

\* writing.rs:89-91: one iteration
WriteDescriptor ==
    /\ mode = "write" /\ pc = "descriptor"
    /\ \E ok \in BOOLEAN :
        /\ SinkWrite(ok, Tag("descriptor", 0, fi), fields_info[fi])
        /\ IF ~ok THEN Fail("IoError") /\ fi' = fi
           ELSE /\ result' = result
                /\ IF fi < Len(fields_info)
                     THEN pc' = "descriptor" /\ fi' = fi + 1
                     ELSE pc' = "terminator" /\ fi' = fi
    /\ UNCHANGED << mode, records, fields_name, fields_info, fields_sizes,
                    ri, hdr, bytes_written, widths, extractVars >>

WriteTerminator_late ==
    /\ mode = "write" /\ pc = "terminator"
    /\ pc' = "flag" /\ ri' = 1 /\ result' = result
    /\ UNCHANGED << mode, records, fields_name, fields_info, fields_sizes,
                    fi, hdr, bytes_written, dest, issued, failed, widths,
                    extractVars >>

\* writing.rs:93
WriteTerminator ==
    /\ mode = "write" /\ pc = "terminator"
    /\ \E ok \in BOOLEAN :
        /\ SinkWrite(ok, Tag("terminator", 0, 0), Bytes(Repeat(1, TERMINATOR_VALUE)))
        /\ IF ok THEN pc' = "flag" /\ ri' = 1 /\ result' = result
                 ELSE Fail("IoError") /\ ri' = ri
    /\ UNCHANGED << mode, records, fields_name, fields_info, fields_sizes,
                    fi, hdr, bytes_written, widths, extractVars >>

\* writing.rs:97
WriteDeletionFlag ==
    /\ mode = "write" /\ pc = "flag"
    /\ \E ok \in BOOLEAN :
        /\ SinkWrite(ok, Tag("flag", ri, 0), Bytes(Repeat(1, SPACE)))
        /\ IF ok THEN pc' = "value" /\ fi' = 1 /\ result' = result
                 ELSE Fail("IoError") /\ fi' = fi
    /\ UNCHANGED << mode, records, fields_name, fields_info, fields_sizes,
                    ri, hdr, bytes_written, widths, extractVars >>

\* writing.rs:99-100: the value's own bytes; the count is cast to u8
WriteValue ==
    /\ mode = "write" /\ pc = "value"
    /\ LET value == records[ri][fields_name[fi]]
       IN \E ok \in BOOLEAN :
            /\ SinkWrite(ok, Tag("field", ri, fi), Bytes(encoded(value)))
            /\ IF ok
                 THEN /\ bytes_written' = ByteLen(encoded(value)) % (U8_MAX + 1)
                      /\ pc' = "pad" /\ result' = result
                 ELSE /\ Fail("IoError")
                      /\ UNCHANGED bytes_written
    /\ UNCHANGED << mode, records, fields_name, fields_info, fields_sizes,
                    ri, fi, hdr, widths, extractVars >>

\* writing.rs:101-106
WritePad ==
    /\ mode = "write" /\ pc = "pad"
    /\ LET length == fields_info[fi].field_length
           pad == bytes_to_pad(length, bytes_written)
       IN IF Miscalculated(bytes_written, length)
            THEN /\ Fail("panic: record length was miscalculated")
                 /\ UNCHANGED << ri, fi, dest, issued, failed, widths >>
            ELSE \E ok \in IF pad = 0 THEN {TRUE} ELSE BOOLEAN :
                /\ issued' = issued
                /\ failed' = (failed \/ ~ok)
                /\ dest' = IF ok /\ pad > 0
                             THEN Append(dest, Bytes(Repeat(pad, SPACE)))
                             ELSE dest
                /\ IF ok
                     THEN /\ widths' = Append(widths, ByteLen(encoded(CurrentValue)) + pad)
                          /\ result' = result
                          /\ AfterField
                     ELSE /\ Fail("IoError")
                          /\ UNCHANGED << ri, fi, widths >>
    /\ UNCHANGED << mode, records, fields_name, fields_info, fields_sizes,
                    hdr, bytes_written, extractVars >>

\* writing.rs:109-110
WriteFileTerminator ==
    /\ mode = "write" /\ pc = "eof"
    /\ \E ok \in BOOLEAN :
        /\ SinkWrite(ok, Tag("eof", 0, 0), Bytes(Repeat(1, FILE_TERMINATOR)))
        /\ IF ok THEN result' = "Ok" /\ pc' = "done" ELSE Fail("IoError")
    /\ UNCHANGED << mode, records, fields_name, fields_info, fields_sizes,
                    ri, fi, hdr, bytes_written, widths, extractVars >>

Write ==
    \/ WriteEmpty
    \/ WriteFieldsName
    \/ WriteFirstRecord
    \/ WriteScanRecord
    \/ WriteHeader
    \/ WriteDescriptor
    \/ WriteTerminator
    \/ WriteDeletionFlag
    \/ WriteValue
    \/ WritePad
    \/ WriteFileTerminator

(***************************************************************************)
(* Writer::write_records                                                   *)
(***************************************************************************)
\* writing.rs:117-119
RecordsEmpty ==
    /\ mode = "write_records" /\ pc = "start" /\ records = << >>
    /\ result' = "Ok" /\ pc' = "done"
    /\ UNCHANGED << mode, writerVars, extractVars >>

\* writing.rs:121-126
RecordsFieldsInfo ==
    /\ mode = "write_records" /\ pc = "start" /\ records # << >>
    /\ fields_info' = [i \in 1..Len(Schema) |->
                         RecordFieldInfo_new(Schema[i].name,
                                             Schema[i].field_type)]
    /\ fields_sizes' = [i \in 1..Len(Schema) |-> 0]
    /\ pc' = "lengths" /\ ri' = 1
    /\ UNCHANGED << mode, records, result, fields_name, fi, hdr,
                    bytes_written, dest, issued, failed, widths, extractVars >>

\* writing.rs:127-135: one record of the length pass
RecordsLengths ==
    /\ mode = "write_records" /\ pc = "lengths"
    /\ fields_sizes' = records[ri].lens
    /\ fields_info' = [i \in 1..Len(fields_info) |->
                         [fields_info[i] EXCEPT !.field_length =
                             NegotiatedLength(@, fields_sizes'[i])]]
    /\ IF ri < Len(records) THEN pc' = "lengths" /\ ri' = ri + 1
                            ELSE pc' = "header" /\ ri' = ri
    /\ UNCHANGED << mode, records, result, fields_name, fi, hdr,
                    bytes_written, dest, issued, failed, widths, extractVars >>

\* writing.rs:137-147
RecordsHeader ==
    /\ mode = "write_records" /\ pc = "header"
    /\ hdr' = Header_new(Len(records), offset_to_first_record(fields_info),
                         size_of_record(fields_info))
    /\ \E ok \in BOOLEAN :
        /\ SinkWrite(ok, Tag("header", 0, 0), hdr')
        /\ IF ok THEN pc' = "descriptor" /\ fi' = 1 /\ result' = result
                 ELSE Fail("IoError") /\ fi' = fi
    /\ UNCHANGED << mode, records, fields_name, fields_info, fields_sizes,
                    ri, bytes_written, widths, extractVars >>

\* writing.rs:148-150: one iteration
RecordsDescriptor ==
    /\ mode = "write_records" /\ pc = "descriptor"
    /\ \E ok \in BOOLEAN :
        /\ SinkWrite(ok, Tag("descriptor", 0, fi), fields_info[fi])
        /\ IF ~ok THEN Fail("IoError") /\ fi' = fi
           ELSE /\ result' = result
                /\ IF fi < Len(fields_info)
                     THEN pc' = "descriptor" /\ fi' = fi + 1
                     ELSE pc' = "terminator" /\ fi' = fi
    /\ UNCHANGED << mode, records, fields_name, fields_info, fields_sizes,
                    ri, hdr, bytes_written, widths, extractVars >>

\* writing.rs:151: the Result of write_u8 is dropped
RecordsTerminator ==
    /\ mode = "write_records" /\ pc = "terminator"
    /\ \E ok \in BOOLEAN :
        SinkWrite(ok, Tag("terminator", 0, 0), Bytes(Repeat(1, TERMINATOR_VALUE)))
    /\ pc' = "flag" /\ ri' = 1
    /\ UNCHANGED << mode, records, result, fields_name, fields_info,
                    fields_sizes, fi, hdr, bytes_written, widths,
                    extractVars >>

\* writing.rs:160-161
RecordsDeletionFlag ==
    /\ mode = "write_records" /\ pc = "flag"
    /\ \E ok \in BOOLEAN :
        /\ SinkWrite(ok, Tag("flag", ri, 0), Bytes(Repeat(1, SPACE)))
        /\ IF ok THEN pc' = "value" /\ fi' = 1 /\ result' = result
                 ELSE Fail("IoError") /\ fi' = fi
    /\ UNCHANGED << mode, records, fields_name, fields_info, fields_sizes,
                    ri, hdr, bytes_written, widths, extractVars >>

\* writing.rs:163-170
RecordsValue ==
    /\ mode = "write_records" /\ pc = "value"
    /\ LET field_value == records[ri].vals[fi]
       IN IF field_type(field_value) # fields_info[fi].field_type
            THEN /\ Fail("panic: field type does not match")
                 /\ UNCHANGED << bytes_written, dest, issued, failed >>
            ELSE \E ok \in BOOLEAN :
                /\ SinkWrite(ok, Tag("field", ri, fi),
                             Bytes(encoded(field_value)))
                /\ IF ok
                     THEN /\ bytes_written' = ByteLen(encoded(field_value))
                          /\ pc' = "pad" /\ result' = result
                     ELSE /\ Fail("IoError")
                          /\ UNCHANGED bytes_written
    /\ UNCHANGED << mode, records, fields_name, fields_info, fields_sizes,
                    ri, fi, hdr, widths, extractVars >>

\* writing.rs:171-181
RecordsPad ==
    /\ mode = "write_records" /\ pc = "pad"
    /\ LET length == fields_info[fi].field_length
           pad == bytes_to_pad(length, bytes_written % (U8_MAX + 1))
       IN IF bytes_written > U8_MAX
            THEN /\ Fail("panic: FieldValue was too long")
                 /\ UNCHANGED << ri, fi, dest, issued, failed, widths >>
            ELSE IF Miscalculated(bytes_written, length)
              THEN /\ Fail("panic: record length was miscalculated")
                   /\ UNCHANGED << ri, fi, dest, issued, failed, widths >>
              ELSE \E ok \in IF pad = 0 THEN {TRUE} ELSE BOOLEAN :
                /\ issued' = issued
                /\ failed' = (failed \/ ~ok)
                /\ dest' = IF ok /\ pad > 0
                             THEN Append(dest, Bytes(Repeat(pad, SPACE)))
                             ELSE dest
                /\ IF ok
                     THEN /\ widths' = Append(widths, ByteLen(encoded(CurrentValue)) + pad)
                          /\ result' = result
                          /\ AfterField
                     ELSE /\ Fail("IoError")
                          /\ UNCHANGED << ri, fi, widths >>
    /\ UNCHANGED << mode, records, fields_name, fields_info, fields_sizes,
                    hdr, bytes_written, extractVars >>

\* writing.rs:184-185
RecordsFileTerminator ==
    /\ mode = "write_records" /\ pc = "eof"
    /\ \E ok \in BOOLEAN :
        /\ SinkWrite(ok, Tag("eof", 0, 0), Bytes(Repeat(1, FILE_TERMINATOR)))
        /\ IF ok THEN result' = "Ok" /\ pc' = "done" ELSE Fail("IoError")
    /\ UNCHANGED << mode, records, fields_name, fields_info, fields_sizes,
                    ri, fi, hdr, bytes_written, widths, extractVars >>

WriteRecords ==
    \/ RecordsEmpty
    \/ RecordsFieldsInfo
    \/ RecordsLengths
    \/ RecordsHeader
    \/ RecordsDescriptor
    \/ RecordsTerminator
    \/ RecordsDeletionFlag
    \/ RecordsValue
    \/ RecordsPad
    \/ RecordsFileTerminator

Idle ==
    /\ pc = "start"
    /\ result = "running"
    /\ fields_name = << >>
    /\ fields_info = << >>
    /\ fields_sizes = << >>
    /\ ri = 1
    /\ fi = 1
    /\ hdr = NoHeader
    /\ bytes_written = 0
    /\ dest = << >>
    /\ issued = << >>
    /\ failed = FALSE
    /\ widths = << >>
    /\ extracted = << >>

Init ==
    /\ \/ /\ mode = "write"
          /\ records \in SeqsUpTo(Records, MaxRecords)
       \/ /\ mode = "write_records"
          /\ \E produced \in Produced :
                records \in SeqsUpTo(TypedRecords(produced), MaxRecords)
    /\ reads = << >>
    /\ Idle

Next == Write \/ WriteRecords

Spec == Init /\ [][Next]_vars

(***************************************************************************)
(* extract_field_value! and a from_field_reader built from it              *)
(* (AlbumRecord in tests/tests.rs).                                        *)
(***************************************************************************)
\* what read_next_value may return
SomeOk(value) == [kind |-> "Some(Ok)", payload |-> value]

SomeErr(error) == [kind |-> "Some(Err)", payload |-> error]

None == [kind |-> "None", payload |-> "none"]

\* "a", 1 and the date 20140722
ReadValues ==
    { Character(<< Run(97, 1) >>), Numeric(<< Run(49, 1) >>),
      Date(<< Run(50, 1), Run(48, 1), Run(49, 1), Run(52, 1), Run(48, 1),
              Run(55, 1), Run(50, 2) >>) }

ReadErrors == { "IoError", "InvalidDate" }

ReadResults ==
    { SomeOk(v) : v \in ReadValues } \cup { SomeErr(e) : e \in ReadErrors }

FieldTypeNotAsExpected(type) ==
    CASE type = "Character" -> "FieldTypeNotAsExpected(Character)"
      [] type = "Numeric" -> "FieldTypeNotAsExpected(Numeric)"
      [] type = "Date" -> "FieldTypeNotAsExpected(Date)"

\* the variants AlbumRecord::from_field_reader asks for, call by call
Expected == << "Character", "Character", "Numeric", "Date" >>

\* r.read_next_value(): the next field of the schema, None once it has no more
read_next_value(n) == IF n <= Len(reads) THEN reads[n] ELSE None

extract_field_value_expected(field_value_option, expected_variant) ==
    CASE field_value_option.kind = "Some(Ok)"
           /\ field_value_option.payload.type = expected_variant
           -> [kind |-> "value", payload |-> field_value_option.payload.bytes]
      [] field_value_option.kind = "Some(Ok)"
           /\ field_value_option.payload.type # expected_variant
           -> [kind |-> "return",
               payload |-> FieldTypeNotAsExpected(expected_variant)]
      [] field_value_option.kind = "Some(Err)"
           -> [kind |-> "return", payload |-> field_value_option.payload]
      [] field_value_option.kind = "None"
           -> [kind |-> "panic", payload |-> "panic: not enough members"]

\* lib.rs:103-112
extract_field_value(field_value_option, expected_variant) ==
    CASE field_value_option.kind = "Some(Ok)"
           /\ field_value_option.payload.type = expected_variant
           -> [kind |-> "value", payload |-> field_value_option.payload.bytes]
      [] field_value_option.kind = "Some(Ok)"
           /\ field_value_option.payload.type # expected_variant
           -> [kind |-> "return",
               payload |-> FieldTypeNotAsExpected(
                               field_type(field_value_option.payload))]
      [] field_value_option.kind = "Some(Err)"
           -> [kind |-> "return", payload |-> field_value_option.payload]
      [] field_value_option.kind = "None"
           -> [kind |-> "panic", payload |-> "panic: not enough members"]

\* tests.rs:55-58: one `let x = extract_field_value!(r.read_next_value(), ..)`
ExtractField ==
    /\ mode = "extract" /\ pc = "start"
    /\ LET outcome == extract_field_value(read_next_value(fi), Expected[fi])
       IN IF outcome.kind = "value"
            THEN /\ extracted' = Append(extracted, outcome.payload)
                 /\ fi' = fi + 1
                 /\ pc' = IF fi < Len(Expected) THEN "start" ELSE "build"
                 /\ result' = result
            ELSE /\ Fail(outcome.payload)
                 /\ UNCHANGED << extracted, fi >>
    /\ UNCHANGED << mode, records, fields_name, fields_info, fields_sizes,
                    ri, hdr, bytes_written, dest, issued, failed, widths,
                    reads >>

\* tests.rs:60-65: Ok(Self { name, artist, price, released })
ExtractBuild ==
    /\ mode = "extract" /\ pc = "build"
    /\ result' = "Ok" /\ pc' = "done"
    /\ UNCHANGED << mode, writerVars, extractVars >>

InitExtract ==
    /\ mode = "extract"
    /\ records = << >>
    /\ reads \in SeqsUpTo(ReadResults, MaxReads)
    /\ Idle

NextExtract == ExtractField \/ ExtractBuild

SpecExtract == InitExtract /\ [][NextExtract]_vars

(***************************************************************************)
(* The Reader (reading.rs): Header, descriptors up to the 0x0D sentinel,   *)
(* then num_records fixed-width records, each field decoded from its       *)
(* window of field_length bytes with the padding trimmed.                  *)
(***************************************************************************)
RECURSIVE Flatten(_)
Flatten(chunks) ==
    IF chunks = << >> THEN << >>
    ELSE Head(chunks).data \o Flatten(Tail(chunks))

\* the bytes after the first n
RECURSIVE Drop(_, _)
Drop(bytes, n) ==
    IF n = 0 \/ bytes = << >> THEN bytes
    ELSE IF Head(bytes).count <= n
      THEN Drop(Tail(bytes), n - Head(bytes).count)
      ELSE << Run(Head(bytes).byte, Head(bytes).count - n) >> \o Tail(bytes)

\* the first n bytes
RECURSIVE Take(_, _)
Take(bytes, n) ==
    IF n = 0 \/ bytes = << >> THEN << >>
    ELSE IF Head(bytes).count <= n
      THEN << Head(bytes) >> \o Take(Tail(bytes), n - Head(bytes).count)
      ELSE << Run(Head(bytes).byte, n) >>

\* the same bytes with adjacent runs of one byte joined
RECURSIVE Joined(_)
Joined(bytes) ==
    IF Len(bytes) < 2 THEN bytes
    ELSE IF bytes[1].byte = bytes[2].byte
      THEN Joined(<< Run(bytes[1].byte, bytes[1].count + bytes[2].count) >>
                    \o SubSeq(bytes, 3, Len(bytes)))
      ELSE << bytes[1] >> \o Joined(Tail(bytes))

RECURSIVE TrimPadding(_)
TrimPadding(raw) ==
    IF raw # << >> /\ raw[Len(raw)].byte = SPACE
      THEN TrimPadding(SubSeq(raw, 1, Len(raw) - 1))
      ELSE raw

decode(raw, type) == [type |-> type, bytes |-> Joined(TrimPadding(raw))]

\* a read that fails yields no records
ReadError == << >>

ReadBack(source) ==
    IF source = << >> \/ source[1].kind # "header" THEN ReadError
    ELSE
      LET header == source[1]
          nd == Cardinality({ k \in 2..Len(source) :
                    \A j \in 2..k : source[j].kind = "descriptor" })
          infos == SubSeq(source, 2, 1 + nd)
          rest == SubSeq(source, 2 + nd, Len(source))
      IN IF \E k \in 1..Len(rest) : rest[k].kind # "bytes" THEN ReadError
         ELSE
           LET stream == Flatten(rest)
               width == 1 + SumLengths(infos)
               \* bytes before field f of record r: sentinel, records, flag
               before(r, f) == 1 + (r - 1) * width + 1
                                 + SumLengths(SubSeq(infos, 1, f - 1))
           IN IF stream = << >> \/ stream[1].byte # TERMINATOR_VALUE
                 \/ ByteLen(stream) < 1 + header.num_records * width
                THEN ReadError
                ELSE [ r \in 1..header.num_records |->
                       [ name \in { infos[f].name : f \in 1..nd } |->
                           LET f == CHOOSE g \in 1..nd : infos[g].name = name
                           IN decode(Take(Drop(stream, before(r, f)),
                                          infos[f].field_length),
                                     infos[f].field_type) ] ]

(***************************************************************************)
(* Vocabulary of the properties.                                           *)
(***************************************************************************)
Writing == mode \in {"write", "write_records"}

Panics == { "panic: unwrap on None", "panic: field type does not match",
            "panic: FieldValue was too long",
            "panic: record length was miscalculated" }

\* the value record r holds for field f of the descriptors
ValueAt(r, f) ==
    IF mode = "write" THEN records[r][fields_name[f]] ELSE records[r].vals[f]

\* the byte size record r asks for field f
Needed(r, f) ==
    IF mode = "write" THEN size_in_bytes(records[r][fields_name[f]])
                      ELSE records[r].lens[f]

Maximum(S) == CHOOSE m \in S : \A x \in S : x <= m

\* all records have the fields of the first, each with the declared type
SharedSchema ==
    IF mode = "write"
      THEN \A r \in 1..Len(records) :
             /\ DOMAIN records[r] = DOMAIN records[1]
             /\ \A n \in DOMAIN records[1] :
                  records[r][n].type = records[1][n].type
      ELSE \A r \in 1..Len(records) : \A f \in 1..Len(Schema) :
             records[r].vals[f].type = Schema[f].field_type

\* the records as maps from field name to value
InputMaps ==
    IF mode = "write" THEN records
    ELSE [ r \in 1..Len(records) |->
           [ name \in { Schema[f].name : f \in 1..Len(Schema) } |->
               records[r].vals[CHOOSE f \in 1..Len(Schema) :
                                  Schema[f].name = name] ] ]

\* the length pass is over: the header has been built or is about to be
LengthsFinal == Writing /\ (pc = "header" \/ hdr # NoHeader)

\* the write calls of a complete file of nf fields and nr records
Layout(nf, nr) ==
    [ k \in 1..(nf + 3 + nr * (nf + 1)) |->
        IF k = 1 THEN Tag("header", 0, 0)
        ELSE IF k <= nf + 1 THEN Tag("descriptor", 0, k - 1)
        ELSE IF k = nf + 2 THEN Tag("terminator", 0, 0)
        ELSE IF k = nf + 3 + nr * (nf + 1) THEN Tag("eof", 0, 0)
        ELSE LET j == k - (nf + 3)
                 r == (j \div (nf + 1)) + 1
                 c == j % (nf + 1)
             IN IF c = 0 THEN Tag("flag", r, 0) ELSE Tag("field", r, c) ]

IsPrefix(s, t) == Len(s) <= Len(t) /\ s = SubSeq(t, 1, Len(s))

DescriptorsIn(chunks) ==
    SelectSeq(chunks, LAMBDA c : c.kind = "descriptor")

(***************************************************************************)
(* C1: round trip.  Records sharing one schema, written by either writer   *)
(* with the call returning Ok, read back from the start of the produced    *)
(* bytes, give the same records in the same order with equal fields.       *)
(***************************************************************************)
C1_RoundTrip ==
    (Writing /\ result = "Ok" /\ records # << >> /\ SharedSchema)
        => ReadBack(dest) = InputMaps

(***************************************************************************)
(* C2: the record size given to the header is 1 plus the sum of the        *)
(* descriptors' final field lengths, the bytes one record occupies.        *)
(***************************************************************************)
C2_RecordSize ==
    (Writing /\ hdr # NoHeader)
        => hdr.size_of_record = 1 + SumLengths(fields_info)

(***************************************************************************)
(* C3: a value whose type differs from the type declared for its field is  *)
(* never written under that field's descriptor, the call does not panic    *)
(* over it and does not return Ok: it returns FieldTypeNotAsExpected.      *)
(***************************************************************************)
TypeMismatch ==
    IF mode = "write"
      THEN \E r \in 1..Len(records) :
             \E n \in DOMAIN records[r] \cap DOMAIN records[1] :
               field_type(records[r][n]) # field_type(records[1][n])
      ELSE \E r \in 1..Len(records) : \E f \in 1..Len(Schema) :
             field_type(records[r].vals[f]) # Schema[f].field_type

C3_TypeMismatchIsAnError ==
    Writing =>
        /\ \A k \in 1..Len(issued) :
             issued[k].tag[1] = "field" =>
               field_type(ValueAt(issued[k].tag[2], issued[k].tag[3]))
                 = fields_info[issued[k].tag[3]].field_type
        /\ result # "panic: field type does not match"
        /\ (result = "Ok" /\ records # << >>) => ~TypeMismatch

(***************************************************************************)
(* C4: when some record holds a Character value of more than 255 bytes     *)
(* (the records share one schema and no sink write failed), the call ends  *)
(* with FieldLengthTooLong.                                                *)
(***************************************************************************)
HasLongCharacter ==
    \E r \in 1..Len(records) :
      \E f \in 1..(IF mode = "write" THEN Len(fields_name) ELSE Len(Schema)) :
        /\ ValueAt(r, f).type = "Character"
        /\ ByteLen(encoded(ValueAt(r, f))) > U8_MAX

C4_LongCharacterIsAnError ==
    (Writing /\ pc = "done" /\ records # << >> /\ ~failed /\ SharedSchema
       /\ HasLongCharacter)
        => result = "FieldLengthTooLong"

(***************************************************************************)
(* C5: once a write call on the sink has failed, the call has returned     *)
(* Err(IoError): it does not go on and it does not return Ok.              *)
(***************************************************************************)
C5_SinkFailureIsReturned ==
    (Writing /\ failed) => result = "IoError"

(***************************************************************************)
(* C6: extract_field_value!.  Every value bound so far is the inner value  *)
(* of a Some(Ok(v)) of the expected variant; a call that stopped did so at *)
(* the first other result: Some(Ok(v)) of another variant gives            *)
(* Err(FieldTypeNotAsExpected(type of v)), Some(Err(e)) gives Err(e), and  *)
(* None gives no value (the call panics).                                  *)
(***************************************************************************)
C6_TypedExtraction ==
    mode = "extract" =>
        /\ Len(extracted) <= Len(reads)
        /\ \A k \in 1..Len(extracted) :
             /\ reads[k].kind = "Some(Ok)"
             /\ reads[k].payload.type = Expected[k]
             /\ extracted[k] = reads[k].payload.bytes
        /\ pc = "start" => Len(extracted) = fi - 1
        /\ result = "Ok" => Len(extracted) = Len(Expected)
        /\ (pc = "done" /\ result # "Ok") =>
             LET k == Len(extracted) + 1
             IN IF k > Len(reads) THEN result = "panic: not enough members"
                ELSE IF reads[k].kind = "Some(Err)"
                  THEN result = reads[k].payload
                  ELSE /\ reads[k].payload.type # Expected[k]
                       /\ result = FieldTypeNotAsExpected(reads[k].payload.type)

C6_Witness ==
    /\ mode = "extract"
    /\ Len(extracted) = 2
    /\ result = "FieldTypeNotAsExpected(Date)"

(***************************************************************************)
(* C7: emission order.  The write calls made on the sink are always a      *)
(* prefix of: header, one descriptor per field in schema order, one 0x0D,  *)
(* then per record one deletion flag and its fields in descriptor order,   *)
(* one 0x1A; a call that returns Ok has made them all; a call that fails   *)
(* with FieldLengthTooLong has made none; and once a write call has been   *)
(* made no descriptor changes any more.                                    *)
(***************************************************************************)
\* what the write call named by `tag` hands to the sink
Emitted(tag) ==
    CASE tag[1] = "header" -> hdr
      [] tag[1] = "descriptor" -> fields_info[tag[3]]
      [] tag[1] = "terminator" -> Bytes(<< Run(13, 1) >>)
      [] tag[1] = "flag" -> Bytes(<< Run(32, 1) >>)
      [] tag[1] = "field" -> Bytes(encoded(ValueAt(tag[2], tag[3])))
      [] tag[1] = "eof" -> Bytes(<< Run(26, 1) >>)

C7_Order ==
    (Writing /\ records # << >>) =>
        /\ IsPrefix([k \in 1..Len(issued) |-> issued[k].tag],
                    Layout(Len(fields_info), Len(records)))
        /\ \A k \in 1..Len(issued) : issued[k].chunk = Emitted(issued[k].tag)
        /\ result = "Ok" =>
             Len(issued) = Len(Layout(Len(fields_info), Len(records)))
        /\ result = "FieldLengthTooLong" => (issued = << >> /\ dest = << >>)
        /\ IsPrefix(DescriptorsIn(dest), fields_info)
        /\ issued # << >> =>
             \A f \in 1..Len(fields_info) :
               fields_info[f].name = IF mode = "write" THEN fields_name[f]
                                                       ELSE Schema[f].name

C7_Frozen == issued # << >> => fields_info' = fields_info

C8_LengthIsMaximum ==
    (LengthsFinal /\ records # << >>) =>
        \A f \in 1..Len(fields_info) :
            fields_info[f].field_length =
                Maximum({ Needed(r, f) : r \in 1..Len(records) })

C8_Witness ==
    /\ LengthsFinal /\ Len(records) = 2
    /\ \E f \in 1..Len(fields_info) : Needed(1, f) > Needed(2, f)
    /\ \E f \in 1..Len(fields_info) : Needed(1, f) < Needed(2, f)

(***************************************************************************)
(* C9: fixed-width slots.  Every finished field slot holds exactly its     *)
(* descriptor's field length in bytes, a call that returns Ok has finished *)
(* every slot, the count Writer::write casts to u8 is the count the value  *)
(* wrote, and when the bytes a value wrote exceed the descriptor's length  *)
(* the next step of the call is the panic, not the padding.                *)
(***************************************************************************)
C9_Slots ==
    (Writing /\ records # << >>) =>
        /\ \A k \in 1..Len(widths) :
             widths[k] =
               fields_info[((k - 1) % Len(fields_info)) + 1].field_length
        /\ result = "Ok" => Len(widths) = Len(records) * Len(fields_info)
        /\ (mode = "write" /\ pc = "pad") =>
             bytes_written = ByteLen(encoded(CurrentValue))

C9_Abort ==
    (Writing /\ pc = "pad"
       /\ ByteLen(encoded(CurrentValue)) > fields_info[fi].field_length)
        => result' \in Panics

C10_EmptyInput ==
    (Writing /\ records = << >>) =>
        /\ result \in {"running", "Ok"}
        /\ pc = "done" => result = "Ok"
        /\ dest = << >> /\ issued = << >> /\ ~failed
        /\ hdr = NoHeader

C10_Witness == Writing /\ records = << >> /\ result = "Ok" /\ pc = "done"

=============================================================================
